---------------------------- MODULE Spec2Model ----------------------------
(***************************************************************************)
(* A model of sidecar.c: the sampling/render poll loop of the dashboard,   *)
(* its samplers (CPU, memory, load average, power), the history arrays,    *)
(* the debug log buffer and the "tail -f" reader, and the SIGWINCH         *)
(* handler.                                                                *)
(*                                                                         *)
(* Representation choices:                                                 *)
(*  - a C string is a sequence of one-character strings;                   *)
(*  - a double percentage x / y * 100.0 is the exact pair <<x, y>>         *)
(*    (numerator, denominator), so rounding is abstracted and a division   *)
(*    by zero stays visible as a pair whose denominator is 0;              *)
(*  - unsigned arithmetic is reduced modulo 2^WordBits;                    *)
(*  - a load average is kept in hundredths (0.08 is 8).                    *)
(***************************************************************************)
EXTENDS Integers, Sequences, FiniteSets, TLC

(***************************************************************************)
(* Program constants.                                                      *)
(***************************************************************************)
HISTORY_HEIGHT == 10
HISTORY_DIVISOR == 4
MAXW == 512
MAX_DEBUG_LINES == 12
\* sizeof(line) in read_debug_file
LINE_SIZE == 1024
\* the clamp of graph_width in handle_winch
GRAPH_MARGIN == 12
GRAPH_MIN == 20
\* the initializers of the geometry globals
INIT_COLS == 80
INIT_ROWS == 24
INIT_GRAPH_WIDTH == 50

(***************************************************************************)
(* Bounds of the exploration.                                              *)
(***************************************************************************)
\* width of the modelled unsigned types (the program's are 64 bits wide)
WordBits == 16
\* appends explored past the capacity of the debug log buffer
LogExtra == 2
\* writes to the tailed file, and drains of it, in one run of SpecTail
MaxWrites == 2
MaxDrains == 3
\* history pushes explored past the capacity MAXW of the history arrays
HistExtra == 1
\* resize signals in one run
MaxSignals == 2
\* iterations of the poll loop in one run
MaxTicks == 5
\* entries of /sys/class/power_supply in one run of SpecPower
MaxDevices == 2
\* ticks the kernel adds to the counters of /proc/stat in one run of SpecCpu
MaxJiffies == 3

U64 == 2 ^ WordBits
Wrap(x) == x % U64

NULL == <<"NULL">>
Min(a, b) == IF a < b THEN a ELSE b
Max(a, b) == IF a > b THEN a ELSE b

(***************************************************************************)
(* debug_log_append: the array of MAX_DEBUG_LINES pointers and its count.  *)
(***************************************************************************)
EmptyLines == [i \in 0 .. MAX_DEBUG_LINES - 1 |-> NULL]

\* memmove(&debug_lines[0], &debug_lines[1], (MAX_DEBUG_LINES-1)*sizeof(char*))
ShiftLines(lines) ==
    [i \in 0 .. MAX_DEBUG_LINES - 1 |->
        IF i < MAX_DEBUG_LINES - 1 THEN lines[i + 1] ELSE lines[i]]

\* A slip that would drop the newest line instead of the oldest.
DebugLogAppendKeepOldest(lines, count, line) ==
    IF count >= MAX_DEBUG_LINES
    THEN [lines |-> [lines EXCEPT ![count - 1] = line], count |-> count]
    ELSE [lines |-> [lines EXCEPT ![count] = line], count |-> count + 1]

DebugLogAppend(lines, count, line) ==
    LET full == count >= MAX_DEBUG_LINES
        l1 == IF full THEN ShiftLines(lines) ELSE lines
        c1 == IF full THEN count - 1 ELSE count
    IN [lines |-> [l1 EXCEPT ![c1] = line], count |-> c1 + 1]


(***************************************************************************)
(* The tailed file: init_debug_file and read_debug_file.  The FILE is its  *)
(* read position (bytes consumed) and its end-of-file indicator; the       *)
(* stream is unbuffered (setvbuf _IONBF), so every fgets sees the file as  *)
(* it is at that moment.                                                   *)
(***************************************************************************)
\* index of the first "\n" of file after position pos, 0 when there is none
NextNewline(file, pos) ==
    IF \E i \in pos + 1 .. Len(file) : file[i] = "\n"
    THEN CHOOSE i \in pos + 1 .. Len(file) :
            /\ file[i] = "\n"
            /\ \A j \in pos + 1 .. i - 1 : file[j] # "\n"
    ELSE 0

\* fgets(line, sizeof(line), dbg_fp): at most LINE_SIZE-1 bytes, through the
\* first newline.  A stream whose end-of-file indicator is set reads nothing
\* (the indicator is sticky until clearerr); reaching the end of the data
\* before a newline or a full buffer sets it.
Fgets(file, pos, eof) ==
    IF eof \/ pos >= Len(file)
    THEN [ok |-> FALSE, buf |-> <<>>, pos |-> pos, eof |-> TRUE]
    ELSE LET nl    == NextNewline(file, pos)
             limit == Min(Len(file), pos + LINE_SIZE - 1)
             stop  == IF nl # 0 /\ nl <= limit THEN nl ELSE limit
             short == (nl = 0 \/ nl > limit) /\ stop - pos < LINE_SIZE - 1
         IN [ok |-> TRUE, buf |-> SubSeq(file, pos + 1, stop),
             pos |-> stop, eof |-> short]

\* strcspn(line, "\r\n")
Strcspn(buf) ==
    IF \E i \in 1 .. Len(buf) : buf[i] \in {"\r", "\n"}
    THEN (CHOOSE i \in 1 .. Len(buf) :
             /\ buf[i] \in {"\r", "\n"}
             /\ \A j \in 1 .. i - 1 : buf[j] \notin {"\r", "\n"}) - 1
    ELSE Len(buf)

\* line[strcspn(line, "\r\n")] = 0
CutLine(buf) == SubSeq(buf, 1, Strcspn(buf))

\* the while (fgets(...)) loop of read_debug_file; got collects the strings
\* handed to debug_log_append by this drain
RECURSIVE DrainLoop(_, _, _, _, _, _, _)
DrainLoop(lines, count, file, pos, eof, updated, got) ==
    LET r == Fgets(file, pos, eof)
    IN IF ~r.ok
       THEN [lines |-> lines, count |-> count, pos |-> r.pos, eof |-> r.eof,
             updated |-> updated, got |-> got]
       ELSE LET a == DebugLogAppend(lines, count, CutLine(r.buf))
            IN DrainLoop(a.lines, a.count, file, r.pos, r.eof, 1,
                         Append(got, CutLine(r.buf)))

\* A slip that would leave the end-of-file indicator set after the drain.
ReadDebugFileNoClearerr(open, lines, count, file, pos, eof) ==
    IF ~open
    THEN [lines |-> lines, count |-> count, pos |-> pos, eof |-> eof,
          updated |-> 0, got |-> <<>>]
    ELSE DrainLoop(lines, count, file, pos, eof, 0, <<>>)

ReadDebugFile(open, lines, count, file, pos, eof) ==
    IF ~open
    THEN [lines |-> lines, count |-> count, pos |-> pos, eof |-> eof,
          updated |-> 0, got |-> <<>>]
    ELSE [DrainLoop(lines, count, file, pos, eof, 0, <<>>) EXCEPT !.eof = FALSE]

\* A slip that would leave the stream at the start of the file.
InitDebugFileNoSeek(openable, file) ==
    IF ~openable
    THEN [ret |-> -1, open |-> FALSE, pos |-> 0, eof |-> FALSE]
    ELSE [ret |-> 0, open |-> TRUE, pos |-> 0, eof |-> FALSE]

\* init_debug_file: fopen, then fseek(dbg_fp, 0, SEEK_END)
InitDebugFile(openable, file) ==
    IF ~openable
    THEN [ret |-> -1, open |-> FALSE, pos |-> 0, eof |-> FALSE]
    ELSE [ret |-> 0, open |-> TRUE, pos |-> Len(file), eof |-> FALSE]

(***************************************************************************)
(* get_cpu_usage.                                                          *)
(***************************************************************************)
CpuFields == {"user", "nice", "system", "idle", "iowait", "irq", "softirq", "steal"}
ZeroStats == [f \in CpuFields |-> 0]
ZeroPct == <<0, 1>>

\* A slip that would count iowait as busy time.
IdleOfIdleOnly(s) == s.idle

IdleOf(s) == Wrap(s.idle + s.iowait)
NonIdleOf(s) == Wrap(s.user + s.nice + s.system + s.irq + s.softirq + s.steal)
TotalOf(s) == Wrap(IdleOf(s) + NonIdleOf(s))

\* A slip that would divide whatever the total delta is.
GetCpuUsageNoGuard(prev, cur) ==
    LET diff_total  == Wrap(TotalOf(cur) - TotalOf(prev))
        diff_idle   == Wrap(IdleOf(cur) - IdleOf(prev))
        diff_iowait == Wrap(cur.iowait - prev.iowait)
    IN [busy |-> <<Wrap(diff_total - diff_idle), diff_total>>,
        io |-> <<diff_iowait, diff_total>>,
        prev |-> cur, divisions |-> 2,
        diff_total |-> diff_total, diff_idle |-> diff_idle,
        diff_iowait |-> diff_iowait]

\* get_cpu_usage(prev) with cur the snapshot get_cpu_stats read: the value
\* returned (busy), last_io_pct (io), the new *prev, and the number of
\* divisions performed
GetCpuUsage(prev, cur) ==
    LET diff_total  == Wrap(TotalOf(cur) - TotalOf(prev))
        diff_idle   == Wrap(IdleOf(cur) - IdleOf(prev))
        diff_iowait == Wrap(cur.iowait - prev.iowait)
    IN IF diff_total > 0
       THEN [busy |-> <<Wrap(diff_total - diff_idle), diff_total>>,
             io |-> <<diff_iowait, diff_total>>,
             prev |-> cur, divisions |-> 2,
             diff_total |-> diff_total, diff_idle |-> diff_idle,
             diff_iowait |-> diff_iowait]
       ELSE [busy |-> ZeroPct, io |-> ZeroPct,
             prev |-> cur, divisions |-> 0,
             diff_total |-> diff_total, diff_idle |-> diff_idle,
             diff_iowait |-> diff_iowait]

(***************************************************************************)
(* get_mem_usage: table maps the keys /proc/meminfo holds to their values. *)
(***************************************************************************)
MemField(table, key, default) ==
    IF key \in DOMAIN table THEN table[key] ELSE default

GetMemUsage(table) ==
    LET mem_total  == MemField(table, "MemTotal:", 1)
        mem_free   == MemField(table, "MemFree:", 0)
        buffers    == MemField(table, "Buffers:", 0)
        cached     == MemField(table, "Cached:", 0)
        swap_total == MemField(table, "SwapTotal:", 1)
        swap_free  == MemField(table, "SwapFree:", 0)
        used       == Wrap(Wrap(Wrap(mem_total - mem_free) - buffers) - cached)
    IN [mem |-> <<used, mem_total>>,
        swap |-> IF swap_total > 0
                 THEN <<Wrap(swap_total - swap_free), swap_total>>
                 ELSE ZeroPct]

(***************************************************************************)
(* parse_loadavg.  The line of /proc/loadavg is the sequence of the fields *)
(* sscanf can convert, in order: six for a well-formed line, fewer for a   *)
(* truncated or malformed one.                                             *)
(***************************************************************************)
LoadFields == <<"load_1min", "load_5min", "load_15min",
                "running_processes", "total_processes", "last_pid">>

\* sscanf(buffer, "%lf %lf %lf %d/%d %d", ...): every converted field is
\* stored; the fields after the first failure keep what they held
Sscanf(loads, line) ==
    [f \in DOMAIN loads |->
        LET i == CHOOSE k \in 1 .. Len(LoadFields) : LoadFields[k] = f
        IN IF i <= Len(line) THEN line[i] ELSE loads[f]]

\* src: whether fopen succeeds, whether fgets reads a line, and the line
ParseLoadavg(loads, src) ==
    IF ~src.openable THEN [ret |-> -1, loads |-> loads]
    ELSE IF ~src.readable THEN [ret |-> -1, loads |-> loads]
    ELSE IF Len(src.line) # Len(LoadFields)
         THEN [ret |-> -1, loads |-> Sscanf(loads, src.line)]
         ELSE [ret |-> 0, loads |-> Sscanf(loads, src.line)]

(***************************************************************************)
(* handle_winch.                                                           *)
(***************************************************************************)
\* A slip that would forget the lower clamp.
ClampWidthNoFloor(cols) ==
    LET w == cols - GRAPH_MARGIN
    IN IF w > MAXW THEN MAXW ELSE w

ClampWidth(cols) ==
    LET w == cols - GRAPH_MARGIN
        w1 == IF w > MAXW THEN MAXW ELSE w
    IN IF w1 < GRAPH_MIN THEN GRAPH_MIN ELSE w1

\* ws: whether the TIOCGWINSZ query succeeds, and the size it reports
HandleWinch(geom, ws) ==
    IF ws.ok
    THEN [cols |-> ws.col, rows |-> ws.row, width |-> ClampWidth(ws.col),
          pending |-> 1]
    ELSE [geom EXCEPT !.pending = 1]

(***************************************************************************)
(* parse_power_status.  /sys/class/power_supply is the sequence of its     *)
(* entries in readdir order; an entry is                                   *)
(*   name     d_name, a string                                             *)
(*   type     the first line of its type file, NoAttr when unreadable      *)
(*   capacity what read_sys_int returns for its capacity file              *)
(*   online   what read_sys_int returns for its online file                *)
(*   status   the first line of its status file, NoAttr when unreadable    *)
(* read_sys_int returns -1 for a file it cannot open or convert.           *)
(***************************************************************************)
NoAttr == "<unreadable>"

\* strstr(hay, needle) != NULL
Strstr(hay, needle) ==
    \E i \in 1 .. Len(hay) - Len(needle) + 1 :
        SubSeq(hay, i, i + Len(needle) - 1) = needle

\* entry->d_name[0] == '.'
IsDotEntry(d) == Len(d.name) > 0 /\ d.name[1] = "."

\* the condition of the else-if branch, without its !found_ac
IsAcType(d) ==
    \/ d.type = "Mains"
    \/ d.type = "ADP1"
    \/ Strstr(d.name, <<"A", "D", "P">>)
    \/ Strstr(d.name, <<"A", "C">>)

\* one iteration of the first readdir loop
FirstPassStep(st, d) ==
    IF IsDotEntry(d) \/ d.type = NoAttr THEN st
    ELSE IF d.type = "Battery" /\ st.found_battery = 0
    THEN [st EXCEPT !.battery_percent = d.capacity,
                    !.found_battery = IF d.capacity >= 0 THEN 1 ELSE 0]
    ELSE IF IsAcType(d) /\ st.found_ac = 0
    THEN IF d.online > 0
         THEN [st EXCEPT !.on_ac = 1, !.found_ac = 1]
         ELSE st
    ELSE st

RECURSIVE FirstPass(_, _, _)
FirstPass(st, devs, i) ==
    IF i > Len(devs) THEN st
    ELSE FirstPass(FirstPassStep(st, devs[i]), devs, i + 1)

\* the second readdir loop: the first entry whose type reads "Battery"
\* decides, and the loop stops there.  When its status file cannot be
\* opened freopen returns NULL and fclose(NULL) follows: undefined (ub).
RECURSIVE SecondPass(_, _, _)
SecondPass(st, devs, i) ==
    IF i > Len(devs) THEN st
    ELSE LET d == devs[i]
         IN IF IsDotEntry(d) \/ d.type # "Battery"
            THEN SecondPass(st, devs, i + 1)
            ELSE IF d.status = NoAttr THEN [st EXCEPT !.ub = TRUE]
            ELSE IF d.status = "Charging" THEN [st EXCEPT !.on_ac = 1]
            ELSE st

PowerDefaults ==
    [battery_percent |-> -1, on_ac |-> 0, found_battery |-> 0, found_ac |-> 0,
     ub |-> FALSE, ret |-> 0]

\* A slip that would run the status fallback whenever a battery was found.
ParsePowerStatusAlwaysFallback(present, devs) ==
    IF ~present THEN [PowerDefaults EXCEPT !.ret = -1]
    ELSE LET st == FirstPass(PowerDefaults, devs, 1)
         IN IF st.found_battery = 1
            THEN SecondPass([st EXCEPT !.on_ac = 0], devs, 1)
            ELSE st

\* present: whether opendir("/sys/class/power_supply") succeeds
ParsePowerStatus(present, devs) ==
    IF ~present THEN [PowerDefaults EXCEPT !.ret = -1]
    ELSE LET st == FirstPass(PowerDefaults, devs, 1)
         IN IF st.found_ac = 0 /\ st.found_battery = 1
            THEN SecondPass(st, devs, 1)
            ELSE st

\* the power_status_t the caller sees
PowerOf(r) == [battery_percent |-> r.battery_percent, on_ac |-> r.on_ac]

(***************************************************************************)
(* State.                                                                  *)
(***************************************************************************)
VARIABLES
    \* the globals of sidecar.c
    term_cols, term_rows, graph_width, resize_pending,
    hist_cpu, hist_mem, last_io_pct,
    debug_lines, debug_line_count,
    dbg_open, fpos, feof,
    \* the locals of main
    prev, loads, power, hist_counter, cpu, mem, swap_pct, new_debug, pc,
    \* the environment: the tailed file, /proc/stat, /proc/meminfo,
    \* /proc/loadavg, /sys/class/power_supply
    file, stat, meminfo, loadline, devices,
    \* which inputs the environment varies in this run
    scenario,
    \* history variables of the verification
    appended, unread, aligned, fed, got, drains, query, open_len,
    pushed_cpu, pushed_mem, iter,
    usage, resets,
    last_good, load_ret,
    pstat,
    frame, resized, writes, signals

geomVars == <<term_cols, term_rows, graph_width, resize_pending, query>>
histVars == <<hist_cpu, hist_mem, hist_counter, pushed_cpu, pushed_mem>>
logVars == <<debug_lines, debug_line_count, appended>>
tailVars == <<dbg_open, fpos, feof, file, unread, aligned, fed, got, drains,
             writes,
             open_len>>
cpuVars == <<prev, last_io_pct, cpu, stat, usage, resets>>
memVars == <<mem, swap_pct, meminfo>>
loadVars == <<loads, loadline, last_good, load_ret>>
powerVars == <<power, devices, pstat>>
loopVars == <<pc, new_debug, iter, frame, resized, signals, scenario>>

vars == <<geomVars, histVars, logVars, tailVars, cpuVars, memVars, loadVars,
          powerVars, loopVars>>

(***************************************************************************)
(* The values the variables hold when main is entered.  The locals prev,   *)
(* loads, power, cpu, mem and swap_pct are uninitialized there; they are   *)
(* given the values below and never read before the code assigns them,     *)
(* except loads and power (see Startup).                                   *)
(***************************************************************************)
ZeroHist == [i \in 0 .. MAXW - 1 |-> ZeroPct]
ZeroLoads == [f \in {LoadFields[k] : k \in 1 .. Len(LoadFields)} |-> 0]
\* frame: what the current iteration has written to the terminal (out), whether
\* it is the startup code that wrote it, whether a resize had been signalled
\* when the iteration tested the flag, how many lines its drain appended, and
\* the geometry each drawing step read
NoGeom == [cols |-> 0, rows |-> 0, width |-> 0, pending |-> 0]
NoFrame == [out |-> <<>>, startup |-> FALSE, seen_resize |-> FALSE,
            flag |-> 0, checked |-> FALSE, lines |-> 0, geo |-> <<>>,
            top |-> NoGeom]

\* no size query made yet
NoQuery == [ok |-> FALSE, col |-> 0, row |-> 0]

InitGeom ==
    /\ term_cols = INIT_COLS
    /\ term_rows = INIT_ROWS
    /\ graph_width = INIT_GRAPH_WIDTH
    /\ resize_pending = 0
    /\ query = NoQuery

InitHist ==
    /\ hist_cpu = ZeroHist
    /\ hist_mem = ZeroHist
    /\ hist_counter = 0
    /\ pushed_cpu = <<>>
    /\ pushed_mem = <<>>

InitLog ==
    /\ debug_lines = EmptyLines
    /\ debug_line_count = 0
    /\ appended = <<>>

InitTail ==
    /\ dbg_open = FALSE
    /\ fpos = 0
    /\ feof = FALSE
    /\ file = <<>>
    /\ unread = <<>>
    /\ aligned = TRUE
    /\ fed = [chunks |-> <<>>, aligned |-> TRUE]
    /\ got = <<>>
    /\ drains = [total |-> 0, empty |-> 0]
    /\ writes = 0
    /\ open_len = 0

InitCpu ==
    /\ prev = ZeroStats
    /\ last_io_pct = ZeroPct
    /\ cpu = ZeroPct
    /\ stat = ZeroStats
    /\ usage = [sampled |-> FALSE, before |-> ZeroStats, cur |-> ZeroStats,
                r |-> GetCpuUsage(ZeroStats, ZeroStats)]
    /\ resets = 0

InitMem ==
    /\ mem = ZeroPct
    /\ swap_pct = ZeroPct
    /\ meminfo = <<>>

InitLoad ==
    /\ loads = ZeroLoads
    /\ loadline = <<>>
    /\ last_good = [ok |-> FALSE, snap |-> ZeroLoads]
    /\ load_ret = 0

InitPower ==
    /\ power = PowerOf(PowerDefaults)
    /\ devices = <<>>
    /\ pstat = [parsed |-> FALSE, present |-> TRUE, devs |-> <<>>,
                r |-> PowerDefaults]

InitLoop ==
    /\ pc = "start"
    /\ new_debug = 0
    /\ iter = 0
    /\ frame = NoFrame
    /\ resized = FALSE
    /\ signals = 0

(***************************************************************************)
(* SpecLog: debug_log_append driven directly.                              *)
(***************************************************************************)
LogTexts == {<<"a">>, <<"b">>}

LogAppend(line) ==
    /\ Len(appended) < MAX_DEBUG_LINES + LogExtra
    /\ LET a == DebugLogAppend(debug_lines, debug_line_count, line)
       IN /\ debug_lines' = a.lines
          /\ debug_line_count' = a.count
    /\ appended' = Append(appended, line)
    /\ UNCHANGED <<geomVars, histVars, tailVars, cpuVars, memVars, loadVars,
                   powerVars, loopVars>>

InitLogSpec ==
    /\ InitGeom /\ InitHist /\ InitLog /\ InitTail /\ InitCpu /\ InitMem
    /\ InitLoad /\ InitPower /\ InitLoop
    /\ scenario = "log"

NextLog == \E line \in LogTexts : LogAppend(line)

SpecLog == InitLogSpec /\ [][NextLog]_vars

\* C1: after k appends the buffer holds exactly the most recent
\* min(k, MAX_DEBUG_LINES) appended lines, oldest at index 0, in append
\* order, and debug_line_count never exceeds MAX_DEBUG_LINES.
C1_LogKeepsMostRecent ==
    LET k == Len(appended)
        n == Min(k, MAX_DEBUG_LINES)
    IN /\ debug_line_count = n
       /\ debug_line_count <= MAX_DEBUG_LINES
       /\ \A i \in 0 .. n - 1 : debug_lines[i] = appended[k - n + i + 1]

\* an append at full capacity has evicted the oldest line
C1_Witness ==
    /\ Len(appended) = MAX_DEBUG_LINES + 1
    /\ appended[1] = <<"a">>
    /\ \A i \in 2 .. Len(appended) : appended[i] = <<"b">>
    /\ debug_lines[0] = <<"b">>
    /\ debug_line_count = MAX_DEBUG_LINES

(***************************************************************************)
(* SpecTail: init_debug_file and read_debug_file against a writer that     *)
(* appends to the file at any time.  History variables: unread, the chunks *)
(* written since the last drain (or the open); aligned, whether the file   *)
(* ended at a line boundary then; fed, those two as the last drain found   *)
(* them; got, what the last drain appended; drains, the drains so far and  *)
(* how many of them read nothing.                                          *)
(***************************************************************************)
Repeat(c, n) == [i \in 1 .. n |-> c]
\* a line that does not fit the read buffer together with its newline
LongLine == Repeat("a", LINE_SIZE - 1) \o <<"\n">>

TailChunks ==
    { <<"a", "\n">>, <<"b", "\n">>, <<"a">>, <<"b", "\r", "\n">>,
      <<"a", "\r", "b", "\n">>, LongLine }

AtLineBoundary(f) == f = <<>> \/ f[Len(f)] = "\n"

TailStart(openable) ==
    /\ pc = "start"
    /\ LET r == InitDebugFile(openable, file)
       IN /\ dbg_open' = r.open
          /\ fpos' = r.pos
          /\ feof' = r.eof
    /\ pc' = "run"
    /\ unread' = <<>>
    /\ aligned' = AtLineBoundary(file)
    /\ open_len' = Len(file)
    /\ UNCHANGED <<file, fed, got, drains, writes>>
    /\ UNCHANGED <<new_debug, iter, frame, resized, signals, scenario>>
    /\ UNCHANGED <<geomVars, histVars, logVars, cpuVars, memVars, loadVars,
                   powerVars>>

TailWrite(chunk) ==
    /\ writes < MaxWrites
    /\ writes' = writes + 1
    /\ file' = file \o chunk
    /\ unread' = IF pc = "start" THEN unread ELSE Append(unread, chunk)
    /\ UNCHANGED <<dbg_open, fpos, feof, aligned, fed, got, drains,
                   open_len>>
    /\ UNCHANGED <<geomVars, histVars, logVars, cpuVars, memVars, loadVars,
                   powerVars, loopVars>>

\* if (dbg_fp) new_debug = read_debug_file();
TailDrain ==
    /\ pc = "run"
    /\ dbg_open
    /\ drains.total < MaxDrains
    /\ LET r == ReadDebugFile(dbg_open, debug_lines, debug_line_count,
                              file, fpos, feof)
       IN /\ debug_lines' = r.lines
          /\ debug_line_count' = r.count
          /\ fpos' = r.pos
          /\ feof' = r.eof
          /\ new_debug' = r.updated
          /\ got' = r.got
          /\ appended' = appended \o r.got
          /\ drains' = [total |-> drains.total + 1,
                        empty |-> drains.empty + (1 - r.updated)]
    /\ fed' = [chunks |-> unread, aligned |-> aligned]
    /\ unread' = <<>>
    /\ aligned' = AtLineBoundary(file)
    /\ UNCHANGED <<dbg_open, file, writes, open_len>>
    /\ UNCHANGED <<pc, iter, frame, resized, signals, scenario>>
    /\ UNCHANGED <<geomVars, histVars, cpuVars, memVars, loadVars, powerVars>>

InitTailSpec ==
    /\ InitGeom /\ InitHist /\ InitLog /\ InitTail /\ InitCpu /\ InitMem
    /\ InitLoad /\ InitPower /\ InitLoop
    /\ scenario = "tail"

NextTail ==
    \/ \E openable \in BOOLEAN : TailStart(openable)
    \/ \E chunk \in TailChunks : TailWrite(chunk)
    \/ TailDrain

SpecTail == InitTailSpec /\ [][NextTail]_vars

\* C2: with the file at a line boundary, the N newline-terminated lines
\* written since the last drain are exactly what the next drain appends,
\* in file order, each without its line terminator.
IsLine(chunk) ==
    /\ Len(chunk) > 0
    /\ chunk[Len(chunk)] = "\n"
    /\ \A i \in 1 .. Len(chunk) - 1 : chunk[i] # "\n"

RECURSIVE LineText(_)
LineText(chunk) ==
    IF Len(chunk) > 0 /\ chunk[Len(chunk)] \in {"\r", "\n"}
    THEN LineText(SubSeq(chunk, 1, Len(chunk) - 1))
    ELSE chunk

FedLines == drains.total > 0 /\ fed.aligned
            /\ \A i \in 1 .. Len(fed.chunks) : IsLine(fed.chunks[i])

C2_AllLinesAppended ==
    FedLines => got = [i \in 1 .. Len(fed.chunks) |-> LineText(fed.chunks[i])]

\* The part of C2 that the code keeps: a line that fits the read buffer and
\* holds no carriage return before its terminator is appended whole, however
\* many drains hit end-of-file before it was written.
FitsBuffer(chunk) ==
    /\ Len(chunk) <= LINE_SIZE - 1
    /\ \A i \in 1 .. Len(LineText(chunk)) : chunk[i] # "\r"

C2_EofNeverSticks ==
    (FedLines /\ \A i \in 1 .. Len(fed.chunks) : FitsBuffer(fed.chunks[i]))
        => /\ got = [i \in 1 .. Len(fed.chunks) |-> LineText(fed.chunks[i])]
           /\ unread = <<>> => fpos = Len(file)
           /\ ~feof

C2_EofWitness ==
    /\ drains.empty >= 2
    /\ FedLines
    /\ Len(fed.chunks) = 2
    /\ got = <<<<"a">>, <<"b">>>>

(***************************************************************************)
(* SpecHist: the history part of the poll loop (main, lines 414-420) and   *)
(* resize signals.  The samples of the first pushes are fixed functions of *)
(* the iteration number so that the arrays can be filled to capacity; the  *)
(* samples of the pushes around MAXW are free.                             *)
(***************************************************************************)
\* memmove(h, h+1, (MAXW-1)*sizeof(double)); h[MAXW-1] = v;
HistPushNoShift(h, v) == [h EXCEPT ![MAXW - 1] = v]

HistPush(h, v) ==
    [i \in 0 .. MAXW - 1 |-> IF i < MAXW - 1 THEN h[i + 1] ELSE v]

WarmUp == iter < HISTORY_DIVISOR * (MAXW - 1)
HistCpuSamples == IF WarmUp THEN {<<(iter * 3) % 101, 100>>}
                  ELSE {<<0, 100>>, <<100, 100>>}
HistMemSamples == IF WarmUp THEN {<<(iter * 7) % 101, 100>>}
                  ELSE {<<25, 100>>, <<75, 100>>}

WinSizes == { [ok |-> TRUE, col |-> 80, row |-> 24],
              [ok |-> TRUE, col |-> 120, row |-> 40],
              [ok |-> FALSE, col |-> 0, row |-> 0] }

Geom == [cols |-> term_cols, rows |-> term_rows, width |-> graph_width,
         pending |-> resize_pending]

\* SIGWINCH delivered: handle_winch runs to completion
Winch(ws) ==
    /\ signals < MaxSignals
    /\ signals' = signals + 1
    /\ LET g == HandleWinch(Geom, ws)
       IN /\ term_cols' = g.cols
          /\ term_rows' = g.rows
          /\ graph_width' = g.width
          /\ resize_pending' = g.pending
          /\ query' = ws

HistWinch(ws) ==
    /\ Winch(ws)
    /\ UNCHANGED <<pc, new_debug, iter, frame, scenario>>
    /\ resized' = TRUE
    /\ UNCHANGED <<histVars, logVars, tailVars, cpuVars, memVars, loadVars,
                   powerVars>>

HistTick(c, m) ==
    /\ Len(pushed_cpu) < MAXW + HistExtra \/ hist_counter # 0
    /\ cpu' = c
    /\ mem' = m
    /\ IF hist_counter = 0
       THEN /\ hist_cpu' = HistPush(hist_cpu, c)
            /\ hist_mem' = HistPush(hist_mem, m)
            /\ pushed_cpu' = Append(pushed_cpu, c)
            /\ pushed_mem' = Append(pushed_mem, m)
       ELSE UNCHANGED <<hist_cpu, hist_mem, pushed_cpu, pushed_mem>>
    /\ hist_counter' = (hist_counter + 1) % HISTORY_DIVISOR
    /\ iter' = iter + 1
    /\ UNCHANGED <<prev, last_io_pct, stat, usage, resets>>
    /\ UNCHANGED <<swap_pct, meminfo>>
    /\ UNCHANGED <<pc, new_debug, frame, resized, signals, scenario>>
    /\ UNCHANGED <<geomVars, logVars, tailVars, loadVars, powerVars>>

InitHistSpec ==
    /\ InitGeom /\ InitHist /\ InitLog /\ InitTail /\ InitCpu /\ InitMem
    /\ InitLoad /\ InitPower /\ InitLoop
    /\ scenario = "hist"

NextHist ==
    \/ \E c \in HistCpuSamples, m \in HistMemSamples : HistTick(c, m)
    \/ \E ws \in WinSizes : HistWinch(ws)

SpecHist == InitHistSpec /\ [][NextHist]_vars

\* C3: after k pushes hist_cpu and hist_mem hold the last min(k, MAXW)
\* pushed values, newest at MAXW-1, pair for pair, the slots never written
\* still 0; a resize changes neither array.
C3_HistoryWindow ==
    LET k == Len(pushed_cpu)
    IN /\ Len(pushed_mem) = k
       /\ \A i \in 0 .. MAXW - 1 :
            IF MAXW - 1 - i < k
            THEN /\ hist_cpu[i] = pushed_cpu[k - (MAXW - 1 - i)]
                 /\ hist_mem[i] = pushed_mem[k - (MAXW - 1 - i)]
            ELSE /\ hist_cpu[i] = ZeroPct
                 /\ hist_mem[i] = ZeroPct

\* the arrays are full, the oldest pair has been evicted, and a resize has
\* changed graph_width on the way
C3_Witness ==
    /\ Len(pushed_cpu) = MAXW + 1
    /\ graph_width = ClampWidth(120)
    /\ hist_cpu[0] = pushed_cpu[2]
    /\ hist_cpu[0] # pushed_cpu[1]
    /\ hist_mem[MAXW - 1] = <<75, 100>>

(***************************************************************************)
(* SpecCpu: get_cpu_usage against /proc/stat counters that the kernel      *)
(* advances one tick at a time and may reset once (all counters back to    *)
(* 0).  usage records the last call: the *prev it was given (before), the  *)
(* snapshot get_cpu_stats read (cur) and what GetCpuUsage computed (r).    *)
(***************************************************************************)
SumStats(s) == s.user + s.nice + s.system + s.idle + s.iowait + s.irq
               + s.softirq + s.steal

KernelAdvance(f) ==
    /\ pc # "exited"
    /\ resets = 0
    /\ SumStats(stat) < MaxJiffies
    /\ stat' = [stat EXCEPT ![f] = Wrap(@ + 1)]
    /\ UNCHANGED <<prev, last_io_pct, cpu, usage, resets>>
    /\ UNCHANGED <<geomVars, histVars, logVars, tailVars, memVars, loadVars,
                   powerVars, loopVars>>

KernelReset ==
    /\ pc # "exited"
    /\ resets = 0
    /\ stat # ZeroStats
    /\ stat' = ZeroStats
    /\ resets' = 1
    /\ UNCHANGED <<prev, last_io_pct, cpu, usage>>
    /\ UNCHANGED <<geomVars, histVars, logVars, tailVars, memVars, loadVars,
                   powerVars, loopVars>>

\* double cpu = get_cpu_usage(&prev); get_cpu_stats exits when /proc/stat
\* cannot be opened
CpuSample(readable) ==
    /\ pc # "exited"
    /\ IF ~readable
       THEN /\ pc' = "exited"
            /\ UNCHANGED cpuVars
       ELSE /\ LET r == GetCpuUsage(prev, stat)
               IN /\ prev' = r.prev
                  /\ cpu' = r.busy
                  /\ last_io_pct' = r.io
                  /\ usage' = [sampled |-> TRUE, before |-> prev,
                               cur |-> stat, r |-> r]
            /\ UNCHANGED <<pc, stat, resets>>
    /\ UNCHANGED <<new_debug, iter, frame, resized, signals, scenario>>
    /\ UNCHANGED <<geomVars, histVars, logVars, tailVars, memVars, loadVars,
                   powerVars>>

InitCpuSpec ==
    /\ InitGeom /\ InitHist /\ InitLog /\ InitTail /\ InitCpu /\ InitMem
    /\ InitLoad /\ InitPower /\ InitLoop
    /\ scenario = "cpu"

NextCpu ==
    \/ \E f \in CpuFields : KernelAdvance(f)
    \/ KernelReset
    \/ \E readable \in BOOLEAN : CpuSample(readable)

SpecCpu == InitCpuSpec /\ [][NextCpu]_vars

\* a percentage x / y * 100.0 that is 0, resp. a number in [0,100]
PctIsZero(p) == p[1] = 0 /\ p[2] # 0
PctInRange(p) == p[2] > 0 /\ 0 <= p[1] /\ p[1] <= p[2]

\* C4: identical consecutive snapshots give busy% = 0 and last_io_pct = 0
\* without any division, and the snapshot read is stored as the new prev.
C4_ZeroDelta ==
    (usage.sampled /\ usage.cur = usage.before)
        => /\ PctIsZero(cpu)
           /\ PctIsZero(last_io_pct)
           /\ usage.r.divisions = 0
           /\ prev = usage.cur

C4_Witness ==
    /\ usage.sampled
    /\ usage.cur = usage.before
    /\ usage.cur # ZeroStats
    /\ prev = usage.cur

\* C5: whenever the counter total of the snapshot read is less than or equal
\* to the total of the previous one, busy% = 0 and iowait% = 0.
C5_FailsClosed ==
    (usage.sampled /\ SumStats(usage.cur) <= SumStats(usage.before))
        => PctIsZero(cpu) /\ PctIsZero(last_io_pct)

\* C6: with all eight counters non-decreasing and a positive total delta,
\* busy delta + idle-like delta = total delta, both percentages are in
\* [0,100], and busy% is the share of the six busy counters in the total.
Delta(f) == usage.cur[f] - usage.before[f]
TotalDelta == SumStats(usage.cur) - SumStats(usage.before)
IdleDelta == Delta("idle") + Delta("iowait")

C6_Complement ==
    (usage.sampled /\ (\A f \in CpuFields : Delta(f) >= 0) /\ TotalDelta > 0)
        => /\ cpu = <<TotalDelta - IdleDelta, TotalDelta>>
           /\ last_io_pct = <<Delta("iowait"), TotalDelta>>
           /\ cpu[1] + usage.r.diff_idle = usage.r.diff_total
           /\ PctInRange(cpu)
           /\ PctInRange(last_io_pct)

C6_Witness ==
    /\ usage.sampled
    /\ Delta("iowait") = 1
    /\ Delta("steal") = 1
    /\ TotalDelta = 2
    /\ cpu = <<1, 2>>
    /\ last_io_pct = <<1, 2>>

(***************************************************************************)
(* SpecPower: parse_power_status against a power_supply directory that     *)
(* gains entries.  pstat records the last call: whether opendir succeeded  *)
(* (present), the entries it enumerated (devs) and the result (r).         *)
(***************************************************************************)
Dev(n, t, c, o, s) ==
    [name |-> n, type |-> t, capacity |-> c, online |-> o, status |-> s]

BAT0 == <<"B", "A", "T", "0">>
BAT1 == <<"B", "A", "T", "1">>
HIDPP == <<"h", "i", "d", "p", "p">>
ACAD == <<"A", "C", "A", "D">>
ADP1 == <<"A", "D", "P", "1">>
UCSI == <<"u", "c", "s", "i">>

DeviceCatalogue ==
    { Dev(BAT0, "Battery", 42, -1, "Charging"),
      Dev(BAT0, "Battery", 42, -1, "Discharging"),
      Dev(BAT1, "Battery", 77, -1, "Charging"),
      Dev(BAT1, "Battery", 77, -1, "Full"),
      Dev(BAT1, "Battery", 0, -1, NoAttr),
      Dev(HIDPP, "Battery", -1, 1, "Charging"),
      Dev(HIDPP, "Battery", -1, 1, "Discharging"),
      Dev(BAT0, "Battery", 150, -1, "Discharging"),
      Dev(BAT0, "Battery", -5, -1, "Charging"),
      Dev(ACAD, "Mains", -1, 1, NoAttr),
      Dev(ACAD, "Mains", -1, 0, NoAttr),
      Dev(ADP1, "USB", -1, 1, NoAttr),
      Dev(ADP1, "ADP1", -1, -1, NoAttr),
      Dev(UCSI, "USB", -1, 1, NoAttr),
      Dev(ACAD, NoAttr, -1, 1, NoAttr),
      Dev(<<".">>, "Battery", 99, 1, "Charging") }

DeviceAdd(d) ==
    /\ pc # "crashed"
    /\ Len(devices) < MaxDevices
    /\ devices' = Append(devices, d)
    /\ UNCHANGED <<power, pstat>>
    /\ UNCHANGED <<geomVars, histVars, logVars, tailVars, cpuVars, memVars,
                   loadVars, loopVars>>

\* parse_power_status(&power); crash is the outcome of the fclose(NULL) the
\* second pass makes when the battery's status file cannot be opened
PowerParse(present, crash) ==
    /\ pc # "crashed"
    /\ LET r == ParsePowerStatus(present, devices)
       IN /\ crash => r.ub
          /\ power' = PowerOf(r)
          /\ pstat' = [parsed |-> TRUE, present |-> present,
                       devs |-> devices, r |-> r]
    /\ pc' = IF crash THEN "crashed" ELSE pc
    /\ UNCHANGED devices
    /\ UNCHANGED <<new_debug, iter, frame, resized, signals, scenario>>
    /\ UNCHANGED <<geomVars, histVars, logVars, tailVars, cpuVars, memVars,
                   loadVars>>

InitPowerSpec ==
    /\ InitGeom /\ InitHist /\ InitLog /\ InitTail /\ InitCpu /\ InitMem
    /\ InitLoad /\ InitPower /\ InitLoop
    /\ scenario = "power"

NextPower ==
    \/ \E d \in DeviceCatalogue : DeviceAdd(d)
    \/ \E present \in BOOLEAN, crash \in BOOLEAN : PowerParse(present, crash)

SpecPower == InitPowerSpec /\ [][NextPower]_vars

\* the entries parse_power_status looks at
Visible(devs) == {i \in 1 .. Len(devs) : ~IsDotEntry(devs[i])}
\* a Battery with a readable non-negative capacity
IsGoodBattery(d) == d.type = "Battery" /\ d.capacity >= 0
\* an AC-type device: type Mains or ADP1, or a name containing ADP or AC
NoAcDevice(devs) == \A i \in Visible(devs) : ~IsAcType(devs[i])

\* C8: when the device set holds a Battery with readable non-negative
\* capacity c and no AC-type device, battery_percent = c and on_ac is true
\* iff that battery's status is exactly "Charging".  With several such
\* batteries the first enumerated one is meant (first match wins).
C8_BatteryFallback ==
    (/\ pstat.parsed /\ pstat.present /\ pc # "crashed"
     /\ NoAcDevice(pstat.devs)
     /\ \E i \in Visible(pstat.devs) : IsGoodBattery(pstat.devs[i]))
        => LET first == CHOOSE i \in Visible(pstat.devs) :
                           /\ IsGoodBattery(pstat.devs[i])
                           /\ \A j \in Visible(pstat.devs) :
                                 IsGoodBattery(pstat.devs[j]) => i <= j
               bat == pstat.devs[first]
           IN /\ power.battery_percent = bat.capacity
              /\ (power.on_ac = 1) <=> (bat.status = "Charging")

\* What the code keeps of C8: with a single Battery entry its capacity and
\* its status decide.
C8_SingleBattery ==
    (/\ pstat.parsed /\ pstat.present /\ pc # "crashed"
     /\ NoAcDevice(pstat.devs)
     /\ \E i \in Visible(pstat.devs) :
           /\ IsGoodBattery(pstat.devs[i])
           /\ \A j \in Visible(pstat.devs) :
                 pstat.devs[j].type = "Battery" => j = i)
        => LET i == CHOOSE i \in Visible(pstat.devs) :
                       IsGoodBattery(pstat.devs[i])
           IN /\ power.battery_percent = pstat.devs[i].capacity
              /\ (power.on_ac = 1) <=> (pstat.devs[i].status = "Charging")

(***************************************************************************)
(* Spec: main.  One action per step of the startup code and of the poll    *)
(* loop; the SIGWINCH handler may run between any two steps.  scenario     *)
(* names the family of inputs the environment varies in a run, the other   *)
(* families being held to one well-formed input:                           *)
(*   "proc"     /proc/stat and /proc/meminfo may fail to open              *)
(*   "load"     /proc/loadavg may fail to open, to read, or be malformed   *)
(*   "power"    the power_supply directory varies                          *)
(*   "screen"   a file is tailed and written to, resize signals arrive     *)
(*   "samples"  the CPU counters and the memory table vary                 *)
(***************************************************************************)
LoopScenarios == {"proc", "load", "power", "screen", "samples"}

WinSize80 == [ok |-> TRUE, col |-> 80, row |-> 24]

LoadA == <<8, 3, 5, 2, 278, 1234>>
LoadB == <<150, 120, 90, 5, 300, 2000>>
LoadSrc(o, r, l) == [openable |-> o, readable |-> r, line |-> l]
LoadSources ==
    IF scenario = "load"
    THEN { LoadSrc(TRUE, TRUE, LoadA), LoadSrc(TRUE, TRUE, LoadB),
           LoadSrc(FALSE, FALSE, <<>>), LoadSrc(TRUE, FALSE, <<>>),
           LoadSrc(TRUE, TRUE, <<>>), LoadSrc(TRUE, TRUE, SubSeq(LoadB, 1, 2)),
           LoadSrc(TRUE, TRUE, SubSeq(LoadB, 1, 4)) }
    ELSE { LoadSrc(TRUE, TRUE, LoadA) }
\* what the uninitialized local loads may hold
IndetLoads ==
    IF scenario = "load"
    THEN { ZeroLoads, [f \in DOMAIN ZeroLoads |-> 9] }
    ELSE { ZeroLoads }

ProcReadable == IF scenario = "proc" THEN BOOLEAN ELSE {TRUE}

CpuInputs ==
    IF scenario = "samples"
    THEN { prev, [prev EXCEPT !.user = Wrap(@ + 1)],
           [prev EXCEPT !.idle = Wrap(@ + 1)] }
    ELSE { [prev EXCEPT !.user = Wrap(@ + 1), !.idle = Wrap(@ + 1)] }

MemTable(total, free, buffers, cached, stotal, sfree) ==
    [k \in {"MemTotal:", "MemFree:", "Buffers:", "Cached:", "SwapTotal:",
            "SwapFree:"} |->
        CASE k = "MemTotal:" -> total
          [] k = "MemFree:" -> free
          [] k = "Buffers:" -> buffers
          [] k = "Cached:" -> cached
          [] k = "SwapTotal:" -> stotal
          [] OTHER -> sfree]
MemTables ==
    IF scenario = "samples"
    THEN { MemTable(100, 40, 10, 10, 10, 5), MemTable(100, 10, 0, 0, 0, 0),
           MemTable(0, 0, 0, 0, 0, 0) }
    ELSE { MemTable(100, 40, 10, 10, 10, 5) }

PowerInputs ==
    IF scenario = "power"
    THEN { [present |-> FALSE, devs |-> <<>>],
           [present |-> TRUE,
            devs |-> <<Dev(BAT0, "Battery", 42, -1, "Discharging")>>],
           [present |-> TRUE,
            devs |-> <<Dev(ACAD, "Mains", -1, 1, NoAttr),
                       Dev(BAT0, "Battery", 42, -1, "Charging")>>],
           [present |-> TRUE,
            devs |-> <<Dev(BAT1, "Battery", 0, -1, NoAttr)>>] }
    ELSE { [present |-> TRUE,
            devs |-> <<Dev(BAT0, "Battery", 42, -1, "Charging")>>] }

LoopChunks == { <<"a", "\n">> }

Emit(op) == [frame EXCEPT !.out = Append(@, op)]
Draw(op, g) == [frame EXCEPT !.out = Append(@, op), !.geo = Append(@, g)]

\* main, lines 383-400.  exit(1) in get_cpu_stats ends the startup in
\* "failed_startup"; everything before it has happened by then.
Startup(arg, openable, ws, statok, src, loads0, pw, crash) ==
    /\ pc = "start"
    /\ LET f == IF arg THEN InitDebugFile(openable, file)
                ELSE [ret |-> 0, open |-> FALSE, pos |-> 0, eof |-> FALSE]
           g == HandleWinch(Geom, ws)
           l == ParseLoadavg(loads0, src)
           p == ParsePowerStatus(pw.present, pw.devs)
       IN /\ dbg_open' = f.open
          /\ fpos' = f.pos
          /\ feof' = f.eof
          /\ aligned' = AtLineBoundary(file)
          /\ open_len' = Len(file)
          /\ term_cols' = g.cols
          /\ term_rows' = g.rows
          /\ graph_width' = g.width
          /\ resize_pending' = g.pending
          /\ query' = ws
          /\ resized' = TRUE
          /\ IF ~statok
             THEN /\ pc' = "failed_startup"
                  /\ UNCHANGED <<prev, stat, loadVars, powerVars, frame>>
             ELSE /\ crash => p.ub
                  /\ prev' = stat
                  /\ UNCHANGED stat
                  /\ loads' = l.loads
                  /\ load_ret' = l.ret
                  /\ loadline' = src.line
                  /\ last_good' = IF l.ret = 0
                                  THEN [ok |-> TRUE, snap |-> l.loads]
                                  ELSE last_good
                  /\ power' = PowerOf(p)
                  /\ devices' = pw.devs
                  /\ pstat' = [parsed |-> TRUE, present |-> pw.present,
                               devs |-> pw.devs, r |-> p]
                  /\ IF crash
                     THEN pc' = "failed_startup" /\ UNCHANGED frame
                     ELSE /\ pc' = "cpu"
                          /\ frame' = [NoFrame EXCEPT !.out = <<"clear">>,
                                                      !.startup = TRUE]
    /\ UNCHANGED <<file, unread, fed, got, drains, writes>>
    /\ UNCHANGED <<last_io_pct, cpu, usage, resets>>
    /\ UNCHANGED <<new_debug, iter, signals, scenario>>
    /\ UNCHANGED <<histVars, logVars, memVars>>

\* double cpu = get_cpu_usage(&prev);
LoopCpu(readable, cur) ==
    /\ pc = "cpu"
    /\ IF ~readable
       THEN /\ pc' = "exited"
            /\ UNCHANGED cpuVars
       ELSE /\ LET r == GetCpuUsage(prev, cur)
               IN /\ prev' = r.prev
                  /\ cpu' = r.busy
                  /\ last_io_pct' = r.io
                  /\ usage' = [sampled |-> TRUE, before |-> prev,
                               cur |-> cur, r |-> r]
            /\ stat' = cur
            /\ pc' = "mem"
            /\ UNCHANGED resets
    /\ UNCHANGED <<new_debug, iter, frame, resized, signals, scenario>>
    /\ UNCHANGED <<geomVars, histVars, logVars, tailVars, memVars, loadVars,
                   powerVars>>

\* double mem = get_mem_usage(&swap_pct);
LoopMem(readable, table) ==
    /\ pc = "mem"
    /\ IF ~readable
       THEN /\ pc' = "exited"
            /\ UNCHANGED memVars
       ELSE /\ LET r == GetMemUsage(table)
               IN /\ mem' = r.mem
                  /\ swap_pct' = r.swap
            /\ meminfo' = table
            /\ pc' = "load"
    /\ UNCHANGED <<new_debug, iter, frame, resized, signals, scenario>>
    /\ UNCHANGED <<geomVars, histVars, logVars, tailVars, cpuVars, loadVars,
                   powerVars>>

\* parse_loadavg(&loads); the value returned is not looked at
LoopLoad(src) ==
    /\ pc = "load"
    /\ LET l == ParseLoadavg(loads, src)
       IN /\ loads' = l.loads
          /\ load_ret' = l.ret
          /\ last_good' = IF l.ret = 0 THEN [ok |-> TRUE, snap |-> l.loads]
                          ELSE last_good
    /\ loadline' = src.line
    /\ pc' = "power"
    /\ UNCHANGED <<new_debug, iter, frame, resized, signals, scenario>>
    /\ UNCHANGED <<geomVars, histVars, logVars, tailVars, cpuVars, memVars,
                   powerVars>>

\* parse_power_status(&power);
LoopPower(pw, crash) ==
    /\ pc = "power"
    /\ LET p == ParsePowerStatus(pw.present, pw.devs)
       IN /\ crash => p.ub
          /\ power' = PowerOf(p)
          /\ pstat' = [parsed |-> TRUE, present |-> pw.present,
                       devs |-> pw.devs, r |-> p]
    /\ devices' = pw.devs
    /\ pc' = IF crash THEN "crashed" ELSE "drain"
    /\ UNCHANGED <<new_debug, iter, frame, resized, signals, scenario>>
    /\ UNCHANGED <<geomVars, histVars, logVars, tailVars, cpuVars, memVars,
                   loadVars>>

\* int new_debug = 0; if (dbg_fp) new_debug = read_debug_file();
LoopDrain ==
    /\ pc = "drain"
    /\ LET r == ReadDebugFile(dbg_open, debug_lines, debug_line_count,
                              file, fpos, feof)
       IN /\ debug_lines' = r.lines
          /\ debug_line_count' = r.count
          /\ fpos' = r.pos
          /\ feof' = r.eof
          /\ new_debug' = r.updated
          /\ appended' = appended \o r.got
          /\ frame' = [frame EXCEPT !.lines = Len(r.got)]
          /\ IF dbg_open
             THEN /\ got' = r.got
                  /\ fed' = [chunks |-> unread, aligned |-> aligned]
                  /\ unread' = <<>>
                  /\ aligned' = AtLineBoundary(file)
                  /\ drains' = [total |-> drains.total + 1,
                                empty |-> drains.empty + (1 - r.updated)]
             ELSE UNCHANGED <<got, fed, unread, aligned, drains>>
    /\ pc' = "push"
    /\ UNCHANGED <<dbg_open, file, writes, open_len>>
    /\ UNCHANGED <<iter, resized, signals, scenario>>
    /\ UNCHANGED <<geomVars, histVars, cpuVars, memVars, loadVars, powerVars>>

\* A slip that would push in every iteration.
LoopPushEveryTick ==
    /\ pc = "push"
    /\ hist_cpu' = HistPush(hist_cpu, cpu)
    /\ hist_mem' = HistPush(hist_mem, mem)
    /\ pushed_cpu' = Append(pushed_cpu, cpu)
    /\ pushed_mem' = Append(pushed_mem, mem)
    /\ hist_counter' = (hist_counter + 1) % HISTORY_DIVISOR
    /\ pc' = "check"
    /\ UNCHANGED <<new_debug, iter, frame, resized, signals, scenario>>
    /\ UNCHANGED <<geomVars, logVars, tailVars, cpuVars, memVars, loadVars,
                   powerVars>>

\* main, lines 414-420
LoopPush ==
    /\ pc = "push"
    /\ IF hist_counter = 0
       THEN /\ hist_cpu' = HistPush(hist_cpu, cpu)
            /\ hist_mem' = HistPush(hist_mem, mem)
            /\ pushed_cpu' = Append(pushed_cpu, cpu)
            /\ pushed_mem' = Append(pushed_mem, mem)
       ELSE UNCHANGED <<hist_cpu, hist_mem, pushed_cpu, pushed_mem>>
    /\ hist_counter' = (hist_counter + 1) % HISTORY_DIVISOR
    /\ pc' = "check"
    /\ UNCHANGED <<new_debug, iter, frame, resized, signals, scenario>>
    /\ UNCHANGED <<geomVars, logVars, tailVars, cpuVars, memVars, loadVars,
                   powerVars>>

\* if (resize_pending || new_debug) { printf("\033[2J"); ...
LoopCheck ==
    /\ pc = "check"
    /\ IF resize_pending # 0 \/ new_debug # 0
       THEN /\ frame' = [Emit("clear") EXCEPT !.seen_resize = resized,
                                               !.flag = resize_pending,
                                               !.checked = TRUE]
            /\ pc' = "clear_flag"
       ELSE /\ frame' = [frame EXCEPT !.seen_resize = resized,
                                      !.flag = resize_pending,
                                      !.checked = TRUE]
            /\ pc' = "home"
    /\ resized' = FALSE
    /\ UNCHANGED <<new_debug, iter, signals, scenario>>
    /\ UNCHANGED <<geomVars, histVars, logVars, tailVars, cpuVars, memVars,
                   loadVars, powerVars>>

\* A slip that would leave the flag set after the clear.
LoopClearFlagKeepsFlag ==
    /\ pc = "clear_flag"
    /\ pc' = "home"
    /\ UNCHANGED <<new_debug, iter, frame, resized, signals, scenario>>
    /\ UNCHANGED <<geomVars, histVars, logVars, tailVars, cpuVars, memVars,
                   loadVars, powerVars>>

\* ... resize_pending = 0; }
LoopClearFlag ==
    /\ pc = "clear_flag"
    /\ resize_pending' = 0
    /\ pc' = "home"
    /\ UNCHANGED <<term_cols, term_rows, graph_width, query>>
    /\ UNCHANGED <<new_debug, iter, frame, resized, signals, scenario>>
    /\ UNCHANGED <<histVars, logVars, tailVars, cpuVars, memVars, loadVars,
                   powerVars>>

\* one drawing step of the render pass: what it writes and the geometry it
\* reads
RenderStep(at, op, g, next) ==
    /\ pc = at
    /\ frame' = IF op = "home" THEN [Emit(op) EXCEPT !.top = g]
                 ELSE Draw(op, g)
    /\ pc' = next
    /\ UNCHANGED <<new_debug, iter, resized, signals, scenario>>
    /\ UNCHANGED <<geomVars, histVars, logVars, tailVars, cpuVars, memVars,
                   loadVars, powerVars>>

\* printf("\033[H");
LoopHome == RenderStep("home", "home", Geom, "spark")

\* the sparkline rows, columns MAXW-graph_width .. MAXW-1
LoopSpark ==
    RenderStep("spark", "spark",
               [step |-> "spark", width |-> graph_width,
                first |-> MAXW - graph_width], "bar_cpu")

\* draw_bar("cpu", cpu);
LoopBarCpu ==
    RenderStep("bar_cpu", "bar",
               [step |-> "bar_cpu", width |-> graph_width], "summary")

\* the two summary lines
LoopSummary ==
    RenderStep("summary", "summary",
               [step |-> "summary", loads |-> loads, power |-> power],
               "bar_mem")

\* draw_bar("mem", mem);
LoopBarMem ==
    RenderStep("bar_mem", "bar",
               [step |-> "bar_mem", width |-> graph_width], "tail")

\* the first line of the tail window (main, lines 453-463)
TailFirst(rows, count) ==
    LET available == rows - (1 + HISTORY_HEIGHT + 1 + (2 * 2) + 1) - 2
        max_debug_rows == IF available > 0 THEN available ELSE 0
    IN IF count > max_debug_rows THEN count - max_debug_rows ELSE 0

\* if (dbg_fp) { ... the tail window ... }
LoopTail ==
    IF dbg_open
    THEN RenderStep("tail", "tail",
                    [step |-> "tail", rows |-> term_rows, cols |-> term_cols,
                     first |-> TailFirst(term_rows, debug_line_count)],
                    "sleep")
    ELSE /\ pc = "tail"
         /\ pc' = "sleep"
         /\ UNCHANGED <<new_debug, iter, frame, resized, signals, scenario>>
         /\ UNCHANGED <<geomVars, histVars, logVars, tailVars, cpuVars,
                        memVars, loadVars, powerVars>>

\* fflush(stdout); nanosleep(&ts, NULL); and the next iteration begins
LoopSleep ==
    /\ pc = "sleep"
    /\ iter < MaxTicks
    /\ iter' = iter + 1
    /\ frame' = NoFrame
    /\ pc' = "cpu"
    /\ UNCHANGED <<new_debug, resized, signals, scenario>>
    /\ UNCHANGED <<geomVars, histVars, logVars, tailVars, cpuVars, memVars,
                   loadVars, powerVars>>

Running == pc \notin {"start", "failed_startup", "exited", "crashed"}

\* SIGWINCH while the loop runs
LoopWinch(ws) ==
    /\ scenario = "screen"
    /\ Running
    /\ Winch(ws)
    /\ resized' = TRUE
    /\ UNCHANGED <<pc, new_debug, iter, frame, scenario>>
    /\ UNCHANGED <<histVars, logVars, tailVars, cpuVars, memVars, loadVars,
                   powerVars>>

\* the writer of the tailed file, between two iterations
LoopWrite(chunk) ==
    /\ scenario = "screen"
    /\ pc = "sleep"
    /\ TailWrite(chunk)

Init ==
    /\ InitGeom /\ InitHist /\ InitLog /\ InitTail /\ InitCpu /\ InitMem
    /\ InitLoad /\ InitPower /\ InitLoop
    /\ scenario \in LoopScenarios

Next ==
    \/ \E arg \in (IF scenario = "screen" THEN BOOLEAN ELSE {FALSE}),
          openable \in BOOLEAN,
          ws \in (IF scenario = "screen" THEN WinSizes ELSE {WinSize80}),
          statok \in ProcReadable, src \in LoadSources,
          loads0 \in IndetLoads, pw \in PowerInputs, crash \in BOOLEAN :
            /\ openable => arg
            /\ Startup(arg, openable, ws, statok, src, loads0, pw, crash)
    \/ \E readable \in ProcReadable, cur \in CpuInputs : LoopCpu(readable, cur)
    \/ \E readable \in ProcReadable, table \in MemTables :
            LoopMem(readable, table)
    \/ \E src \in LoadSources : LoopLoad(src)
    \/ \E pw \in PowerInputs, crash \in BOOLEAN : LoopPower(pw, crash)
    \/ LoopDrain
    \/ LoopPush
    \/ LoopCheck
    \/ LoopClearFlag
    \/ LoopHome
    \/ LoopSpark
    \/ LoopBarCpu
    \/ LoopSummary
    \/ LoopBarMem
    \/ LoopTail
    \/ LoopSleep
    \/ \E ws \in WinSizes : LoopWinch(ws)
    \/ \E chunk \in LoopChunks : LoopWrite(chunk)

Spec == Init /\ [][Next]_vars

(***************************************************************************)
(* Claims about the poll loop.                                             *)
(***************************************************************************)
\* C7: after a tick whose load-average read or parse failed, the snapshot
\* used for rendering is exactly the last successfully parsed one: no field
\* of it was changed by the failed tick.
C7_FailedTickKeepsSnapshot ==
    (Running /\ load_ret = -1 /\ last_good.ok) => loads = last_good.snap

\* What the code keeps of C7: a tick that cannot open or read the source
\* returns the error and leaves every field of the snapshot alone.
C7_UnreadableKeepsSnapshot ==
    [][(pc = "load" /\ pc' = "power" /\ loadline' = <<>>)
          => (load_ret' = -1 /\ loads' = loads)]_vars

\* C9: once startup has succeeded no error in a tick terminates the process
\* or stops the poll loop.  A loop that always reaches another render never
\* reaches a state where the process is gone.
C9_LoopStaysUp == pc \notin {"exited", "crashed"}

Count(seq, x) == Cardinality({i \in DOMAIN seq : seq[i] = x})
LoopClears == Count(frame.out, "clear") - (IF frame.startup THEN 1 ELSE 0)
DrawOps == {"spark", "bar", "summary", "tail"}

\* C10: the loop clears the screen only in a tick where the resize flag was
\* set (which only the startup query or a resize signal does) or where the
\* drain appended at least one line, and then once; in every other tick
\* nothing but the cursor-home precedes the drawing, and in every tick the
\* cursor-home is written before anything is drawn and after the clear.
C10_ClearOnlyWhenDue ==
    /\ frame.startup <=> (iter = 0 /\ pc \notin {"start", "failed_startup"})
    /\ frame.startup => frame.out[1] = "clear"
    /\ LoopClears \in {0, 1}
    /\ LoopClears = 1 =>
          /\ frame.checked
          /\ frame.flag # 0 \/ frame.lines > 0
    /\ (frame.checked /\ frame.flag = 0 /\ frame.lines = 0) =>
          /\ LoopClears = 0
          /\ frame.out # <<>> => frame.out[1] = "home"
    /\ frame.flag # 0 => frame.seen_resize
    /\ \A i \in DOMAIN frame.out :
          /\ frame.out[i] \in DrawOps =>
                \E j \in 1..(i - 1) : frame.out[j] = "home"
          /\ frame.out[i] = "home" =>
                \A j \in (i + 1)..Len(frame.out) : frame.out[j] # "clear"
    /\ pc \in {"spark", "bar_cpu", "summary", "bar_mem", "tail", "sleep"} =>
          Count(frame.out, "home") = 1

\* a tick after the first that was cleared for new lines alone and then
\* drawn in full
C10_Witness ==
    /\ pc = "sleep"
    /\ iter > 0
    /\ frame.flag = 0
    /\ frame.lines > 0
    /\ frame.out = <<"clear", "home", "spark", "bar", "summary", "bar", "tail">>

\* a tick after the first drawn in full after only the cursor-home
C10_HomeOnlyTick ==
    /\ pc = "sleep"
    /\ iter > 0
    /\ frame.out = <<"home", "spark", "bar", "summary", "bar", "tail">>

\* a tick after the first that was cleared for a resize alone
C10_ResizeTick ==
    /\ pc = "sleep"
    /\ iter > 0
    /\ frame.flag = 1
 
\* C11: one render pass uses one geometry: the width read by the sparkline
\* rows and by both bars, and the columns and rows read by the tail window,
\* are those in force when the pass began with the cursor-home.
C11_OneGeometryPerPass ==
    \A i \in DOMAIN frame.geo :
        LET g == frame.geo[i]
        IN /\ g.step \in {"spark", "bar_cpu", "bar_mem"} =>
                 g.width = frame.top.width
           /\ g.step = "tail" =>
                 (g.cols = frame.top.cols /\ g.rows = frame.top.rows)

(***************************************************************************)
(* SpecWinch: handle_winch against every kind of window size: narrower     *)
(* than the margin, around the lower and the upper clamp, the widest an    *)
(* unsigned short can report, and a query that fails.                      *)
(***************************************************************************)
WinchCols == {0, 10, 31, 32, 33, 80, 120, 523, 524, 525, 600, 65535}
WinchRows == {24, 40}
WinchSizes ==
    { [ok |-> o, col |-> c, row |-> r] :
         o \in BOOLEAN, c \in WinchCols, r \in WinchRows }

InitWinchSpec ==
    /\ InitGeom /\ InitHist /\ InitLog /\ InitTail /\ InitCpu /\ InitMem
    /\ InitLoad /\ InitPower /\ InitLoop
    /\ scenario = "winch"

NextWinch == \E ws \in WinchSizes : HistWinch(ws)

SpecWinch == InitWinchSpec /\ [][NextWinch]_vars

Clamp(x, lo, hi) == IF x < lo THEN lo ELSE IF x > hi THEN hi ELSE x

\* the geometry a successful query leaves behind, and the range of
\* graph_width
WidthFromColumns ==
    /\ query.ok =>
          /\ graph_width = Clamp(query.col - 12, 20, 512)
          /\ term_cols = query.col
          /\ term_rows = query.row
    /\ (query.ok /\ query.col = 80) => graph_width = 68
    /\ (query.ok /\ query.col = 120) => graph_width = 108
    /\ graph_width \in 20..MAXW
    /\ (MAXW - graph_width) \in DOMAIN hist_cpu
    /\ (MAXW - 1) \in DOMAIN hist_cpu
    /\ DOMAIN hist_cpu = DOMAIN hist_mem

\* C12: after a resize whose size query succeeded graph_width is
\* clamp(columns - 12, 20, 512) of the columns reported and the columns and
\* rows are those reported; graph_width is always within 20..MAXW, so the
\* sparkline columns MAXW-graph_width .. MAXW-1 are slots of the history
\* arrays.  A resize whose size query failed changes no part of the
\* geometry.
C12_ResizeGeometry ==
    /\ []WidthFromColumns
    /\ [][(signals' # signals /\ ~query'.ok) =>
             UNCHANGED <<term_cols, term_rows, graph_width>>]_vars

\* a second resize, to 120 columns, after one that was clamped
C12_Witness ==
    /\ signals = 2
    /\ query.ok
    /\ query.col = 120
    /\ graph_width = 108
    /\ term_rows = 40

\* C13: when /proc/meminfo reports MemTotal as zero the used-memory
\* percentage is 0, and when it reports SwapTotal as zero the swap-used
\* percentage is 0; neither is the result of a division by zero.
C13_ZeroTotalsGiveZero ==
    DOMAIN meminfo # {} =>
        /\ meminfo["MemTotal:"] = 0 => PctIsZero(mem)
        /\ meminfo["SwapTotal:"] = 0 => PctIsZero(swap_pct)

\* What the code keeps of C13: the swap half.
C13_ZeroSwapGivesZero ==
    DOMAIN meminfo # {} =>
        (meminfo["SwapTotal:"] = 0 => swap_pct = ZeroPct)

(***************************************************************************)
(* Further claims about parse_power_status, checked in SpecPower.          *)
(***************************************************************************)
First(S) == CHOOSE i \in S : \A j \in S : i <= j
Batteries(devs) == {i \in Visible(devs) : devs[i].type = "Battery"}
AcDevices(devs) ==
    {i \in Visible(devs) :
        /\ devs[i].type \notin {NoAttr, "Battery"}
        /\ IsAcType(devs[i])}
GoodBatteries(devs) == {i \in Visible(devs) : IsGoodBattery(devs[i])}
Returned == pstat.parsed /\ pstat.present /\ pc # "crashed"

\* C14: first match wins: battery_percent is the capacity of the first
\* enumerated device of type Battery, and on_ac is decided by the online
\* attribute of the first enumerated AC-type device; later devices and the
\* status fallback do not change the result once an AC device was found.
C14_FirstMatchWins ==
    Returned =>
        /\ Batteries(pstat.devs) # {} =>
              power.battery_percent =
                  pstat.devs[First(Batteries(pstat.devs))].capacity
        /\ AcDevices(pstat.devs) # {} =>
              ((power.on_ac = 1) <=>
                  (pstat.devs[First(AcDevices(pstat.devs))].online > 0))

\* What the code keeps of C14: the first Battery whose capacity reads
\* non-negative gives battery_percent, whatever follows it.
C14_FirstGoodBatteryWins ==
    (Returned /\ GoodBatteries(pstat.devs) # {}) =>
        power.battery_percent =
            pstat.devs[First(GoodBatteries(pstat.devs))].capacity

\* C15: the resize flag loses no notification: a resize signal delivered
\* since the loop last tested the flag is still pending (resize_pending is
\* set) until a pass that tests the flag after the signal clears the screen
\* for it; the loop never resets the flag for a signal it has not tested.
C15_NoLostResize == resized => resize_pending # 0

\* the steps of an iteration that come after its push step
AfterPush == {"check", "clear_flag", "home", "spark", "bar_cpu", "summary",
              "bar_mem", "tail", "sleep"}
\* how many iterations have been through their push step
PushSteps == iter + (IF pc \in AfterPush THEN 1 ELSE 0)
CeilDiv(a, b) == (a + b - 1) \div b

\* C16: the history is pushed in iteration i (from 0) iff i mod 4 = 0: after
\* t iterations ceil(t/4) pushes have been made, the two arrays together,
\* each push carries the CPU and memory percentages sampled in its own
\* iteration, and hist_counter stays in 0..3.
C16_PushEveryFourth ==
    /\ hist_counter \in 0 .. 3
    /\ hist_counter = PushSteps % 4
    /\ Len(pushed_cpu) = CeilDiv(PushSteps, 4)
    /\ Len(pushed_mem) = Len(pushed_cpu)
    /\ (pc \in AfterPush /\ iter % 4 = 0) =>
          /\ pushed_cpu[Len(pushed_cpu)] = cpu
          /\ pushed_mem[Len(pushed_mem)] = mem
          /\ hist_cpu[MAXW - 1] = cpu
          /\ hist_mem[MAXW - 1] = mem

\* the second push, in iteration 4, of a sample that differs from the first
C16_Witness ==
    /\ iter = 4
    /\ pc = "check"
    /\ Len(pushed_cpu) = 2
    /\ pushed_cpu[1] # pushed_cpu[2]
    /\ hist_cpu[MAXW - 2] = pushed_cpu[1]

(***************************************************************************)
(* Further claims about the tailed file, checked in SpecTail.              *)
(***************************************************************************)
RECURSIVE Concat(_)
Concat(chunks) ==
    IF chunks = <<>> THEN <<>> ELSE Head(chunks) \o Concat(Tail(chunks))

\* the newline-terminated lines of a text, terminator included; what follows
\* the last newline is left out
RECURSIVE SplitLines(_)
SplitLines(text) ==
    IF \A i \in 1 .. Len(text) : text[i] # "\n" THEN <<>>
    ELSE LET n == CHOOSE i \in 1 .. Len(text) :
                     /\ text[i] = "\n"
                     /\ \A j \in 1 .. i - 1 : text[j] # "\n"
         IN <<SubSeq(text, 1, n)>> \o SplitLines(SubSeq(text, n + 1, Len(text)))

\* C17: a drain that starts at a line boundary appends exactly the complete
\* lines written since the previous drain, one entry per line, each equal to
\* the line without its trailing newline/carriage return; text whose newline
\* is not yet written, and the pieces of an over-long line, are not appended
\* as entries of their own.
C17_OnlyCompleteLines ==
    (drains.total > 0 /\ fed.aligned) =>
        LET ls == SplitLines(Concat(fed.chunks))
        IN got = [i \in 1 .. Len(ls) |-> LineText(ls[i])]

\* C18: after parse_power_status battery_percent is within 0..100 or is the
\* sentinel -1, whatever the capacity attributes read; without the
\* power_supply directory the result is battery_percent = -1, on_ac = 0.
C18_PercentInRange ==
    pstat.parsed =>
        /\ power.battery_percent \in ({-1} \cup (0 .. 100))
        /\ ~pstat.present => power = [battery_percent |-> -1, on_ac |-> 0]

\* What the code keeps of C18: the result without the directory, and the
\* sentinel when no entry is of type Battery.
C18_AbsentGivesSentinel ==
    pstat.parsed =>
        /\ ~pstat.present =>
              (power = [battery_percent |-> -1, on_ac |-> 0]
               /\ pstat.r.ret = -1)
        /\ Batteries(pstat.devs) = {} => power.battery_percent = -1

\* C19: what the file held when it was opened is never replayed: the read
\* position starts at the end of the file and never goes back before it, and
\* every entry appended is text found between the length at open time and
\* the read position; nothing is appended while nothing has been read there.
C19_NoReplay ==
    /\ ~dbg_open => appended = <<>>
    /\ dbg_open =>
          /\ open_len <= fpos
          /\ fpos <= Len(file)
          /\ fpos = open_len => appended = <<>>
          /\ \A i \in 1 .. Len(appended) :
                \E a \in open_len .. fpos :
                   /\ a + Len(appended[i]) <= fpos
                   /\ appended[i] = SubSeq(file, a + 1, a + Len(appended[i]))

\* a file that held the line "a" when opened, and "b" appended since
C19_Witness ==
    /\ dbg_open
    /\ open_len = 2
    /\ file[1] = "a"
    /\ drains.total > 0
    /\ appended = << <<"b">> >>
=============================================================================
